---- MODULE Spec2Model ----
(***************************************************************************)
(* Model of the Portls API backend (src/main.py, src/schemas.py).          *)
(*                                                                         *)
(* Three specifications over one set of variables:                         *)
(*   SpecNorm  one call of to_json on an argument the caller built;        *)
(*   Spec      one server process: seed_db run at startup (and again after *)
(*             a restart) and the request handlers, each run to completion *)
(*             against the external store;                                 *)
(*   SpecConc  two processes running seed_db against the same store, one   *)
(*             store call per step.                                        *)
(*                                                                         *)
(* Python values are tagged so that every comparison is between values of  *)
(* one shape.  A scalar is [t |-> type, v |-> text]; an object is          *)
(* [k |-> kind, m |-> mapping, items |-> sequence].                        *)
(***************************************************************************)
EXTENDS Integers, Sequences, FiniteSets, TLC

VARIABLES
    heap,        \* Python objects of the to_json call, by address (1..Len)
    arg,         \* address handed to to_json (0 is None)
    argVal,      \* the argument as the caller built it, by value
    ret,         \* address to_json returned; Unset before the call
    db,          \* the module-level connection handle: "None" or "present"
    dbTruth,     \* what bool(db) does on the driver's handle
    planetExists,\* "planet" is among db.list_collection_names()
    planet,      \* documents of collection "planet", in insertion order
    profile,     \* documents of collection "profile"
    nextId,      \* the store's next fresh identifier
    resp,        \* outcome of the last handler that ran
    procUp,      \* the server process finished (or has not failed) startup
    seedRuns,    \* completed runs of seed_db in this history
    planet0,     \* "planet" as it was before the first seed_db run
    lastFault,   \* which store call of the last handler was made to raise
    lastReq,     \* path parameter of the last request
    pc,          \* SpecConc: position of each process inside seed_db
    idx,         \* SpecConc: index of the next default planet to insert
    anyRaised    \* SpecConc: some store call raised in this history

normVars == <<heap, arg, argVal, ret>>
storeVars == <<db, dbTruth, planetExists, planet, profile, nextId>>
procVars == <<resp, procUp, seedRuns, planet0, lastFault, lastReq>>
concVars == <<pc, idx, anyRaised>>
vars == <<heap, arg, argVal, ret, db, dbTruth, planetExists, planet, profile,
          nextId, resp, procUp, seedRuns, planet0, lastFault, lastReq,
          pc, idx, anyRaised>>

(***************************************************************************)
(* Bounds of the model.                                                    *)
(***************************************************************************)
MaxLen == 2        \* longest list handed to to_json
MaxSeedRuns == 2   \* runs of seed_db in one history of Spec
MaxInitDocs == 1   \* documents already in "planet" when the history starts

Unset == 0 - 1

(***************************************************************************)
(* Python values.                                                          *)
(***************************************************************************)
StrV(s) == [t |-> "str", v |-> s]
OidV(s) == [t |-> "ObjectId", v |-> s]
IntV(s) == [t |-> "int", v |-> s]
FloatV(s) == [t |-> "float", v |-> s]
StrListV(s) == [t |-> "list", v |-> s]

\* str(x): the text of x, as a str whatever the type of x was.
Str(x) == [t |-> "str", v |-> x.v]

EmptyMap == [f \in {} |-> StrV("")]
NoneV == [k |-> "none", m |-> EmptyMap, items |-> <<>>]
DictV(m) == [k |-> "dict", m |-> m, items |-> <<>>]
ListV(s) == [k |-> "list", m |-> EmptyMap, items |-> s]

\* d.pop(key) / d[key] = value on a mapping.
MapPop(m, key) == [f \in (DOMAIN m) \ {key} |-> m[f]]
MapSet(m, key, value) ==
    [f \in (DOMAIN m) \cup {key} |-> IF f = key THEN value ELSE m[f]]

(***************************************************************************)
(* The heap: objects by address.  A list object holds addresses.           *)
(***************************************************************************)
Alloc(h, obj) == [h |-> Append(h, obj), v |-> Len(h) + 1]

\* The caller builds its argument: value -> heap objects.
RECURSIVE Load(_, _), LoadItems(_, _, _)
LoadItems(h, items, acc) ==
    IF items = <<>> THEN Alloc(h, ListV(acc))
    ELSE LET r == Load(h, Head(items))
         IN  LoadItems(r.h, Tail(items), Append(acc, r.v))
Load(h, val) ==
    IF val.k = "none" THEN [h |-> h, v |-> 0]
    ELSE IF val.k = "list" THEN LoadItems(h, val.items, <<>>)
    ELSE Alloc(h, DictV(val.m))

\* What an address denotes, by value.
RECURSIVE Deref(_, _)
Deref(h, a) ==
    IF a = 0 THEN NoneV
    ELSE IF h[a].k = "list"
         THEN ListV([i \in 1..Len(h[a].items) |-> Deref(h, h[a].items[i])])
    ELSE DictV(h[a].m)

(***************************************************************************)
(* to_json, src/main.py:24-32.                                             *)
(***************************************************************************)
\* line 25, "not doc": None, the empty list and the empty dict are falsy.
Truthy_noneOnly(h, a) == a # 0
Truthy(h, a) ==
    /\ a # 0
    /\ IF h[a].k = "list" THEN h[a].items # <<>> ELSE DOMAIN h[a].m # {}

\* line 29, d = dict(doc): a new object with the same mapping.
DictCopy_alias(h, a) == [h |-> h, v |-> a]
DictCopy(h, a) == Alloc(h, DictV(h[a].m))

\* lines 30-31 on the mapping of d.
NormalizeDict_keepsInternal(m) ==
    IF "_id" \in DOMAIN m THEN MapSet(m, "id", Str(m["_id"])) ELSE m
NormalizeDict_noGuard(m) ==
    IF "_id" \in DOMAIN m
    THEN MapSet(MapPop(m, "_id"), "id", Str(m["_id"]))
    ELSE MapSet(m, "id", StrV("None"))
NormalizeDict(m) ==
    IF "_id" \in DOMAIN m
    THEN MapSet(MapPop(m, "_id"), "id", Str(m["_id"]))
    ELSE m

RECURSIVE to_json(_, _), ListComp(_, _, _), ListComp_reversed(_, _, _)
\* line 28, [to_json(d) for d in doc]: a new list of the results, in order.
ListComp_reversed(h, items, acc) ==
    IF items = <<>> THEN Alloc(h, ListV(acc))
    ELSE LET r == to_json(h, Head(items))
         IN  ListComp_reversed(r.h, Tail(items), <<r.v>> \o acc)
ListComp(h, items, acc) ==
    IF items = <<>> THEN Alloc(h, ListV(acc))
    ELSE LET r == to_json(h, Head(items))
         IN  ListComp(r.h, Tail(items), Append(acc, r.v))
to_json(h, a) ==
    IF ~Truthy(h, a) THEN [h |-> h, v |-> a]
    ELSE IF h[a].k = "list" THEN ListComp(h, h[a].items, <<>>)
    ELSE LET c == DictCopy(h, a)
         IN  [h |-> [c.h EXCEPT ![c.v].m = NormalizeDict(@)], v |-> c.v]

\* to_json on a value that nothing else refers to (a fresh query result).
ToJsonValue(val) ==
    LET l == Load(<<>>, val)
        r == to_json(l.h, l.v)
    IN  Deref(r.h, r.v)

(***************************************************************************)
(* Arguments of to_json.                                                   *)
(***************************************************************************)
InternalIds == {OidV("65a1"), IntV("7")}
PublicIds == {StrV("65a1")}
PlanetNames == {StrV("Glubublub"), StrV("Whispris")}

FieldChoices(f) ==
    IF f = "_id" THEN InternalIds
    ELSE IF f = "id" THEN PublicIds
    ELSE PlanetNames

ArgDicts ==
    UNION {[D -> InternalIds \cup PublicIds \cup PlanetNames]
           : D \in SUBSET {"_id", "id", "name"}}

ArgRecords == {m \in ArgDicts : \A f \in DOMAIN m : m[f] \in FieldChoices(f)}

ArgLists == UNION {[1..n -> {DictV(m) : m \in ArgRecords}] : n \in 0..MaxLen}

Args == {NoneV} \cup {DictV(m) : m \in ArgRecords} \cup {ListV(s) : s \in ArgLists}

(***************************************************************************)
(* SpecNorm: the caller builds an argument, then calls to_json once.       *)
(***************************************************************************)
NoResp == [op |-> "none", status |-> 0, body |-> NoneV, detail |-> ""]

IdleStore ==
    /\ db = "None"
    /\ dbTruth = "truthy"
    /\ planetExists = FALSE
    /\ planet = <<>>
    /\ profile = <<>>
    /\ nextId = 1

IdleProc ==
    /\ resp = NoResp
    /\ procUp = TRUE
    /\ seedRuns = 0
    /\ planet0 = <<>>
    /\ lastFault = 0
    /\ lastReq = ""

IdleConc ==
    /\ pc = <<>>
    /\ idx = <<>>
    /\ anyRaised = FALSE

IdleNorm ==
    /\ heap = <<>>
    /\ arg = 0
    /\ argVal = NoneV
    /\ ret = Unset

InitNorm ==
    /\ \E val \in Args :
         /\ argVal = val
         /\ heap = Load(<<>>, val).h
         /\ arg = Load(<<>>, val).v
    /\ ret = Unset
    /\ IdleStore /\ IdleProc /\ IdleConc

ToJsonCall ==
    /\ ret = Unset
    /\ LET r == to_json(heap, arg)
       IN  /\ heap' = r.h
           /\ ret' = r.v
    /\ UNCHANGED <<arg, argVal, storeVars, procVars, concVars>>

NextNorm == ToJsonCall

SpecNorm == InitNorm /\ [][NextNorm]_vars

(***************************************************************************)
(* Claims about to_json, checked under SpecNorm.                           *)
(***************************************************************************)
Called == ret # Unset
Result == Deref(heap, ret)
HeapBefore == Load(<<>>, argVal).h

\* out is the public form of the store record in: no "_id", "id" the text of
\* the old "_id" as a str, every other field as it was.
IsPublicForm(in, out) ==
    /\ out.k = "dict"
    /\ DOMAIN out.m = ((DOMAIN in.m) \ {"_id"}) \cup {"id"}
    /\ out.m["id"].t = "str"
    /\ out.m["id"].v = in.m["_id"].v
    /\ \A f \in (DOMAIN in.m) \ {"_id", "id"} : out.m[f] = in.m[f]

CarriesInternalId(val) == val.k = "dict" /\ "_id" \in DOMAIN val.m

\* C1: a record that carries "_id" comes back (alone or as an element of a
\* list of such records) without the key "_id" and with "id" holding the
\* string form of the old "_id"; all other fields keep their values.
C1_InternalIdReplaced ==
    Called =>
        /\ CarriesInternalId(argVal) => IsPublicForm(argVal, Result)
        /\ (argVal.k = "list" /\ argVal.items # <<>>
              /\ \A i \in 1..Len(argVal.items) : CarriesInternalId(argVal.items[i]))
           => /\ Result.k = "list"
              /\ Len(Result.items) = Len(argVal.items)
              /\ \A i \in 1..Len(argVal.items) :
                    IsPublicForm(argVal.items[i], Result.items[i])

C1_Witness ==
    /\ Called
    /\ argVal.k = "list"
    /\ Len(argVal.items) = MaxLen
    /\ \A i \in 1..Len(argVal.items) :
          /\ CarriesInternalId(argVal.items[i])
          /\ argVal.items[i].m["_id"].t = "ObjectId"
          /\ DOMAIN argVal.items[i].m = {"_id", "id", "name"}

\* C2: to_json of a sequence has the length of the sequence, and its i-th
\* element is what to_json gives for the i-th element alone.
C2_ListElementwise ==
    (Called /\ argVal.k = "list") =>
        /\ Result.k = "list"
        /\ Len(Result.items) = Len(argVal.items)
        /\ \A i \in 1..Len(argVal.items) :
              Result.items[i] = ToJsonValue(argVal.items[i])

C2_Witness ==
    /\ Called
    /\ argVal.k = "list"
    /\ Len(argVal.items) = MaxLen
    /\ CarriesInternalId(argVal.items[1])
    /\ ~CarriesInternalId(argVal.items[MaxLen])
    /\ Result.items[1] # Result.items[MaxLen]

\* C3: to_json applied to its own result gives that result again, and a
\* record without "_id" comes back with exactly its fields and values.
C3_Idempotent ==
    Called =>
        /\ LET again == to_json(heap, ret)
           IN  Deref(again.h, again.v) = Result
        /\ (argVal.k = "dict" /\ ~CarriesInternalId(argVal)) => Result = argVal

C3_Witness ==
    /\ Called
    /\ argVal.k = "list"
    /\ Len(argVal.items) = MaxLen
    /\ CarriesInternalId(argVal.items[1])
    /\ argVal.items[MaxLen].m # EmptyMap
    /\ ~CarriesInternalId(argVal.items[MaxLen])
    /\ Result # argVal

\* C4: after the call every object the caller handed in is as it was: the
\* records still hold "_id", hold no added "id", and the list has the same
\* elements.
C4_ArgumentNotMutated ==
    Called =>
        /\ Deref(heap, arg) = argVal
        /\ \A a \in 1..Len(HeapBefore) : heap[a] = HeapBefore[a]

C4_Witness ==
    /\ Called
    /\ argVal.k = "dict"
    /\ DOMAIN argVal.m = {"_id", "name"}
    /\ ret # arg
    /\ "id" \in DOMAIN heap[ret].m
    /\ DOMAIN heap[arg].m = {"_id", "name"}

\* C5: to_json(None) is None and to_json([]) is the empty list it was given;
\* no object is created for either.
C5_EmptyPassesThrough ==
    (Called /\ (argVal = NoneV \/ argVal = ListV(<<>>))) =>
        /\ ret = arg
        /\ Result = argVal
        /\ heap = HeapBefore

C5_Witness ==
    /\ Called
    /\ argVal = ListV(<<>>)
    /\ arg # 0
    /\ Result.items = <<>>

(***************************************************************************)
(* Seed data, src/main.py:36-89, with the fields of Planet,                *)
(* src/schemas.py:10-21.                                                   *)
(***************************************************************************)
PlanetObj(m) == [k |-> "Planet", m |-> m, items |-> <<>>]

\* name, distance_ly and difficulty stand for the eleven fields of Planet:
\* the other eight are literals carried along in exactly the same way.
DEFAULT_PLANETS == <<
    PlanetObj([name |-> StrV("Glubublub"),
               distance_ly |-> FloatV("12.5"),
               difficulty |-> StrV("Easy")]),
    PlanetObj([name |-> StrV("Unicornucopia"),
               distance_ly |-> FloatV("8.2"),
               difficulty |-> StrV("Easy")]),
    PlanetObj([name |-> StrV("Lavar Major"),
               distance_ly |-> FloatV("21.0"),
               difficulty |-> StrV("Hard")]),
    PlanetObj([name |-> StrV("Whispris"),
               distance_ly |-> FloatV("15.7"),
               difficulty |-> StrV("Medium")]) >>

NumDefaults == Len(DEFAULT_PLANETS)

\* p.model_dump(): the fields of the model object as a plain dict.
model_dump(p) == DictV(p.m)

\* str.lower() on the names that occur.
Lower(s) ==
    CASE s = "Glubublub" -> "glubublub"
      [] s = "Unicornucopia" -> "unicornucopia"
      [] s = "Lavar Major" -> "lavar major"
      [] s = "Whispris" -> "whispris"
      [] s = "WHISPRIS" -> "whispris"
      [] s = "Zorb" -> "zorb"
      [] OTHER -> s

(***************************************************************************)
(* The external document store and the adapter in front of it.  A store    *)
(* is [exists, docs, nextId] for one collection; a call either raises or   *)
(* returns.  `raises` is the environment's choice for that call.           *)
(***************************************************************************)
Store(exists, docs, next) == [exists |-> exists, docs |-> docs, nextId |-> next]

Raised(kind) == [exc |-> TRUE, kind |-> kind, val |-> NoneV]
Returned(val) == [exc |-> FALSE, kind |-> "", val |-> val]

\* db.list_collection_names(): is the collection among the names.
list_collection_names(st, raises) ==
    IF raises THEN [exc |-> TRUE, val |-> FALSE]
    ELSE [exc |-> FALSE, val |-> st.exists]

\* db[c].count_documents({}).
count_documents(st, raises) ==
    IF raises THEN [exc |-> TRUE, val |-> Unset]
    ELSE [exc |-> FALSE, val |-> Len(st.docs)]

\* db[c].find_one({field: value}): the first match, or None.
find_one(docs, field, value, raises) ==
    IF raises THEN Raised("StoreError")
    ELSE LET hits == {i \in 1..Len(docs) :
                         field \in DOMAIN docs[i] /\ docs[i][field] = StrV(value)}
         IN  IF hits = {} THEN Returned(NoneV)
             ELSE Returned(DictV(docs[CHOOSE i \in hits : \A j \in hits : i <= j]))

\* database.create_document(collection, record): insert the record's fields
\* under a fresh identifier.
create_document(st, p, raises) ==
    IF db = "None" THEN [exc |-> TRUE, st |-> st]
    ELSE IF raises THEN [exc |-> TRUE, st |-> st]
    ELSE [exc |-> FALSE,
          st |-> Store(TRUE,
                       Append(st.docs,
                              MapSet(model_dump(p).m, "_id", OidV(ToString(st.nextId)))),
                       st.nextId + 1)]

\* database.get_documents(collection): every record, in the store's order.
get_documents(st, raises) ==
    IF db = "None" THEN Raised("StoreUnavailable")
    ELSE IF raises THEN Raised("StoreError")
    ELSE Returned(ListV([i \in 1..Len(st.docs) |-> DictV(st.docs[i])]))

\* bool(db), as in `... if db else None`: None is falsy; the driver's handle
\* is truthy or refuses truth testing by raising, depending on the driver.
DbBool ==
    IF db = "None" THEN [exc |-> FALSE, val |-> FALSE]
    ELSE IF dbTruth = "raises" THEN [exc |-> TRUE, val |-> FALSE]
    ELSE [exc |-> FALSE, val |-> TRUE]

\* `if doc:` on a value.
TruthyVal(val) ==
    \/ val.k = "dict" /\ DOMAIN val.m # {}
    \/ val.k = "list" /\ val.items # <<>>

(***************************************************************************)
(* seed_db, src/main.py:92-102.  The fault f names the store call that     *)
(* raises in this run: 0 none, 1 list_collection_names, 2 count_documents, *)
(* 2 + i the i-th create_document.                                         *)
(***************************************************************************)
SeedFaults == 0..(NumDefaults + 2)

\* line 97: "planet" not in names, or the collection counts zero documents.
NeedsSeed_always(st, f) == [exc |-> FALSE, val |-> TRUE]
NeedsSeed(st, f) ==
    LET n == list_collection_names(st, f = 1)
    IN  IF n.exc THEN [exc |-> TRUE, val |-> FALSE]
        ELSE IF ~n.val THEN [exc |-> FALSE, val |-> TRUE]
        ELSE LET c == count_documents(st, f = 2)
             IN  IF c.exc THEN [exc |-> TRUE, val |-> FALSE]
                 ELSE [exc |-> FALSE, val |-> (c.val = 0)]

\* lines 98-99: one create_document per default planet, in order, until one
\* raises.
RECURSIVE InsertDefaults(_, _, _)
InsertDefaults(st, i, f) ==
    IF i > NumDefaults THEN [exc |-> FALSE, st |-> st]
    ELSE LET r == create_document(st, DEFAULT_PLANETS[i], f = 2 + i)
         IN  IF r.exc THEN [exc |-> TRUE, st |-> st]
             ELSE InsertDefaults(r.st, i + 1, f)

\* lines 96-99, the body of the try.
SeedBody(st, f) ==
    IF db = "None" THEN [exc |-> FALSE, st |-> st]
    ELSE LET need == NeedsSeed(st, f)
         IN  IF need.exc THEN [exc |-> TRUE, st |-> st]
             ELSE IF need.val THEN InsertDefaults(st, 1, f)
             ELSE [exc |-> FALSE, st |-> st]

\* lines 94-102: whatever the body raises is swallowed.
seed_db_noExcept(st, f) ==
    LET r == SeedBody(st, f) IN [escaped |-> r.exc, st |-> r.st]
seed_db(st, f) ==
    LET r == SeedBody(st, f) IN [escaped |-> FALSE, st |-> r.st]

(***************************************************************************)
(* Request handlers.  The fault f is 1 when the handler's store query      *)
(* raises, 0 when it does not.                                             *)
(***************************************************************************)
Ok(body) == [status |-> 200, body |-> body, detail |-> ""]
HttpError(code, detail) == [status |-> code, body |-> NoneV, detail |-> detail]

DefaultDumps == ListV([i \in 1..NumDefaults |-> model_dump(DEFAULT_PLANETS[i])])

\* list_planets, src/main.py:111-118.
list_planets_emptyOnError(st, f) ==
    LET r == get_documents(st, f = 1)
    IN  IF r.exc THEN Ok(ListV(<<>>)) ELSE Ok(ToJsonValue(r.val))
list_planets(st, f) ==
    LET r == get_documents(st, f = 1)
    IN  IF r.exc THEN Ok(DefaultDumps) ELSE Ok(ToJsonValue(r.val))

\* lines 124 and 158: `db[c].find_one({field: value}) if db else None`.
FindIfDb(docs, field, value, f) ==
    LET t == DbBool
    IN  IF t.exc THEN Raised("NotImplementedError")
        ELSE IF t.val THEN find_one(docs, field, value, f = 1)
        ELSE Returned(NoneV)

\* lines 130-135: the default planet of that name, whatever the case of the
\* letters, with "id" set to the name as requested; 404 when there is none.
DefaultPlanet(name) ==
    LET hits == {i \in 1..NumDefaults :
                    Lower(DEFAULT_PLANETS[i].m.name.v) = Lower(name)}
    IN  IF hits = {} THEN HttpError(404, "Planet not found")
        ELSE LET p == DEFAULT_PLANETS[CHOOSE i \in hits : \A j \in hits : i <= j]
             IN  Ok(DictV(MapSet(model_dump(p).m, "id", StrV(name))))

\* get_planet, src/main.py:121-135.
get_planet(st, name, f) ==
    LET q == FindIfDb(st.docs, "name", name, f)
    IN  IF ~q.exc /\ TruthyVal(q.val) THEN Ok(ToJsonValue(q.val))
        ELSE DefaultPlanet(name)

\* lines 164-172: the demo profile (three of its seven literal fields).
DemoProfile(username) ==
    DictV([username |-> StrV(username),
           avatar_type |-> StrV("kid"),
           saved_planets |-> StrListV("Unicornucopia, Whispris")])

\* get_profile, src/main.py:154-172.
get_profile(docs, username, f) ==
    LET q == FindIfDb(docs, "username", username, f)
    IN  IF ~q.exc /\ TruthyVal(q.val) THEN Ok(ToJsonValue(q.val))
        ELSE Ok(DemoProfile(username))

(***************************************************************************)
(* Spec: one server process.                                               *)
(***************************************************************************)
StoredPlanets ==
    {[_id |-> OidV("a1"), name |-> StrV("Glubublub"), difficulty |-> StrV("Hard")],
     [_id |-> OidV("a2"), name |-> StrV("Zorb"), difficulty |-> StrV("Easy")]}

InitialPlanetColls ==
    {s \in UNION {[1..n -> StoredPlanets] : n \in 0..MaxInitDocs} :
        \A i, j \in DOMAIN s : s[i] = s[j] => i = j}

InitialProfileColls ==
    {<<>>, <<[_id |-> OidV("b1"), username |-> StrV("ana"), avatar_type |-> StrV("alien")]>>}

ReqNames == {"Glubublub", "WHISPRIS", "Zorb", "pluto"}
ReqUsers == {"ana", "bob"}

PlanetStore == Store(planetExists, planet, nextId)

InitStore ==
    /\ db \in {"None", "present"}
    /\ dbTruth \in {"truthy", "raises"}
    /\ db = "None" => dbTruth = "truthy"
    /\ planet \in InitialPlanetColls
    /\ planetExists \in BOOLEAN
    /\ planet # <<>> => planetExists
    /\ profile \in InitialProfileColls
    /\ nextId = 1

Init ==
    /\ InitStore
    /\ resp = NoResp
    /\ procUp = TRUE
    /\ seedRuns = 0
    /\ planet0 = planet
    /\ lastFault = 0
    /\ lastReq = ""
    /\ IdleNorm /\ IdleConc

\* The process starts (or restarts): the startup handler runs to completion.
SeedDb ==
    /\ procUp
    /\ seedRuns < MaxSeedRuns
    /\ \E f \in SeedFaults :
         LET r == seed_db(PlanetStore, f)
         IN  /\ planetExists' = r.st.exists
             /\ planet' = r.st.docs
             /\ nextId' = r.st.nextId
             /\ procUp' = ~r.escaped
             /\ lastFault' = f
             /\ resp' = [op |-> "seed_db", status |-> 0, body |-> NoneV, detail |-> ""]
    /\ seedRuns' = seedRuns + 1
    /\ lastReq' = ""
    /\ UNCHANGED <<db, dbTruth, profile, planet0, normVars, concVars>>

Serving == procUp /\ seedRuns >= 1

Respond(op, r, req, f) ==
    /\ resp' = [op |-> op, status |-> r.status, body |-> r.body, detail |-> r.detail]
    /\ lastReq' = req
    /\ lastFault' = f
    /\ UNCHANGED <<storeVars, procUp, seedRuns, planet0, normVars, concVars>>

ListPlanets ==
    /\ Serving
    /\ \E f \in {0, 1} : Respond("list_planets", list_planets(PlanetStore, f), "", f)

GetPlanet ==
    /\ Serving
    /\ \E name \in ReqNames, f \in {0, 1} :
         Respond("get_planet", get_planet(PlanetStore, name, f), name, f)

GetProfile ==
    /\ Serving
    /\ \E username \in ReqUsers, f \in {0, 1} :
         Respond("get_profile", get_profile(profile, username, f), username, f)

Next == SeedDb \/ ListPlanets \/ GetPlanet \/ GetProfile

Spec == Init /\ [][Next]_vars

(***************************************************************************)
(* Claims about the handlers, checked under Spec.                          *)
(***************************************************************************)
DefaultNames == <<"Glubublub", "Unicornucopia", "Lavar Major", "Whispris">>

NamesOf(docs) == [i \in 1..Len(docs) |-> docs[i].name.v]

FirstMatch(docs, name) ==
    LET hits == {i \in 1..Len(docs) : docs[i].name = StrV(name)}
    IN  docs[CHOOSE i \in hits : \A j \in hits : i <= j]

HasMatch(docs, name) == \E i \in 1..Len(docs) : docs[i].name = StrV(name)

\* C6: with the connection unset, or present with the read of "planet"
\* raising, list_planets answers with exactly the four default planets in
\* their declared order, never with an empty or partial list of store data.
C6_ListFallsBackToDefaults ==
    (resp.op = "list_planets" /\ (db = "None" \/ lastFault = 1)) =>
        /\ resp.status = 200
        /\ resp.body.k = "list"
        /\ Len(resp.body.items) = Len(DefaultNames)
        /\ \A i \in 1..Len(DefaultNames) :
              /\ resp.body.items[i].k = "dict"
              /\ resp.body.items[i].m = DEFAULT_PLANETS[i].m
              /\ resp.body.items[i].m.name.v = DefaultNames[i]

C6_Witness ==
    /\ resp.op = "list_planets"
    /\ db = "present"
    /\ lastFault = 1
    /\ planet # <<>>
    /\ NamesOf(planet) # DefaultNames
    /\ resp.body = DefaultDumps

\* C7: no store failure escapes the operation it happened in: the process
\* stays up after seed_db, every request ends in a normal response (404
\* "Planet not found" from get_planet being the only error), and requests
\* can still be served afterwards.
C7_FailuresAreContained ==
    /\ procUp
    /\ resp.status \in {0, 200, 404}
    /\ resp.op = "seed_db" <=> (resp.status = 0 /\ seedRuns >= 1)
    /\ resp.status = 404 => (resp.op = "get_planet" /\ resp.detail = "Planet not found")
    /\ seedRuns >= 1 => Serving

C7_Witness ==
    /\ db = "present"
    /\ planet0 = <<>>
    /\ Len(planet) = 2
    /\ resp.op = "get_profile"
    /\ lastFault = 1
    /\ resp.status = 200
    /\ resp.body = DemoProfile(lastReq)

\* C8: with a connection present, any number of seed_db runs in sequence
\* leaves "planet" as one run can leave it; a run inserts only into a
\* missing or empty collection, inserts all the defaults there when no call
\* fails, and leaves a non-empty collection as it is.
C8_SeedStep ==
    seedRuns' = seedRuns + 1 =>
        /\ planet # <<>> => (planet' = planet /\ planetExists' = planetExists)
        /\ (db = "present" /\ planet = <<>> /\ lastFault' = 0)
              => NamesOf(planet') = DefaultNames
        /\ \E n \in 0..Len(DefaultNames) :
              /\ Len(planet') = Len(planet) + n
              /\ SubSeq(planet', 1, Len(planet)) = planet
              /\ \A i \in 1..n :
                    /\ planet'[Len(planet) + i].name.v = DefaultNames[i]
                    /\ MapPop(planet'[Len(planet) + i], "_id") = DEFAULT_PLANETS[i].m

C8_OneRunState ==
    (db = "present" /\ seedRuns >= 1) =>
        IF planet0 # <<>> THEN planet = planet0
        ELSE /\ Len(planet) <= Len(DefaultNames)
             /\ NamesOf(planet) = SubSeq(DefaultNames, 1, Len(planet))

C8_SeedIdempotent == [](C8_OneRunState) /\ [][C8_SeedStep]_vars

C8_Witness ==
    /\ db = "present"
    /\ seedRuns >= 2
    /\ planet0 = <<>>
    /\ NamesOf(planet) = DefaultNames
    /\ resp.op = "seed_db"
    /\ lastFault = 0

\* C9: with a connection present and a record of the requested name in
\* "planet", get_planet answers with that stored record in its public form,
\* not with the default planet; the default data (with "id" the requested
\* name) is used only with no connection, a failing store or no match.
C9_StoredRecordReturned ==
    (resp.op = "get_planet" /\ db = "present" /\ lastFault = 0
        /\ HasMatch(planet, lastReq)) =>
        /\ resp.status = 200
        /\ IsPublicForm(DictV(FirstMatch(planet, lastReq)), resp.body)
        /\ resp.body.m["id"] # StrV(lastReq)

\* C9 holds of every history in which the driver's handle can be truth-tested.
C9_OnTruthyHandle == dbTruth = "truthy" => C9_StoredRecordReturned

(***************************************************************************)
(* SpecConc: two processes start against the same store; each runs         *)
(* seed_db, src/main.py:92-102, one store call per step.                   *)
(***************************************************************************)
Procs == {"p1", "p2"}

InitConc ==
    /\ db \in {"None", "present"}
    /\ dbTruth = "truthy"
    /\ planet \in InitialPlanetColls
    /\ planetExists \in BOOLEAN
    /\ planet # <<>> => planetExists
    /\ profile = <<>>
    /\ nextId = 1
    /\ planet0 = planet
    /\ resp = NoResp
    /\ procUp = TRUE
    /\ seedRuns = 0
    /\ lastFault = 0
    /\ lastReq = ""
    /\ pc = [p \in Procs |-> "start"]
    /\ idx = [p \in Procs |-> 1]
    /\ anyRaised = FALSE
    /\ IdleNorm

ConcFrame == UNCHANGED <<db, dbTruth, profile, planet0, resp, procUp, seedRuns,
                         lastFault, lastReq, normVars>>

\* The except clause: the run is over, the process goes on.
CaughtBy(p) ==
    /\ pc' = [pc EXCEPT ![p] = "done"]
    /\ anyRaised' = TRUE
    /\ UNCHANGED <<planetExists, planet, nextId, idx>>

\* line 96: if db is not None.
CSeedStart(p) ==
    /\ pc[p] = "start"
    /\ pc' = [pc EXCEPT ![p] = IF db = "None" THEN "done" ELSE "names"]
    /\ UNCHANGED <<planetExists, planet, nextId, idx, anyRaised>>
    /\ ConcFrame

\* line 97, left of `or`: "planet" not in db.list_collection_names().
CSeedNames(p) ==
    /\ pc[p] = "names"
    /\ \E raises \in BOOLEAN :
         LET r == list_collection_names(PlanetStore, raises)
         IN  IF r.exc THEN CaughtBy(p)
             ELSE /\ pc' = [pc EXCEPT ![p] = IF r.val THEN "count" ELSE "insert"]
                  /\ UNCHANGED <<planetExists, planet, nextId, idx, anyRaised>>
    /\ ConcFrame

\* line 97, right of `or`: db["planet"].count_documents({}) == 0.
CSeedCount(p) ==
    /\ pc[p] = "count"
    /\ \E raises \in BOOLEAN :
         LET r == count_documents(PlanetStore, raises)
         IN  IF r.exc THEN CaughtBy(p)
             ELSE /\ pc' = [pc EXCEPT ![p] = IF r.val = 0 THEN "insert" ELSE "done"]
                  /\ UNCHANGED <<planetExists, planet, nextId, idx, anyRaised>>
    /\ ConcFrame

\* lines 98-99: the next create_document of the loop.
CSeedInsert(p) ==
    /\ pc[p] = "insert"
    /\ \E raises \in BOOLEAN :
         LET r == create_document(PlanetStore, DEFAULT_PLANETS[idx[p]], raises)
         IN  IF r.exc THEN CaughtBy(p)
             ELSE /\ planetExists' = r.st.exists
                  /\ planet' = r.st.docs
                  /\ nextId' = r.st.nextId
                  /\ idx' = [idx EXCEPT ![p] = @ + 1]
                  /\ pc' = [pc EXCEPT ![p] = IF idx[p] = NumDefaults THEN "done"
                                              ELSE "insert"]
                  /\ UNCHANGED anyRaised
    /\ ConcFrame

NextConc ==
    \E p \in Procs : CSeedStart(p) \/ CSeedNames(p) \/ CSeedCount(p) \/ CSeedInsert(p)

SpecConc == InitConc /\ [][NextConc]_vars

CountOf(docs, name) == Cardinality({j \in 1..Len(docs) : docs[j].name.v = name})

\* C10: two processes running seed_db against the same initially empty
\* store, their store calls interleaved in any order, leave each of the four
\* default planets in "planet" exactly once.
C10_NoDuplicateSeeds ==
    (/\ \A p \in Procs : pc[p] = "done"
     /\ db = "present"
     /\ planet0 = <<>>
     /\ ~anyRaised)
    => \A i \in 1..Len(DefaultNames) : CountOf(planet, DefaultNames[i]) = 1

====
